---- MODULE Spec2Model ----
(***************************************************************************)
(* Defiant: Tuple (frozen array) and Record (frozen object) utilities.     *)
(*                                                                         *)
(* The heap is a sequence of objects; an object's address is its index.    *)
(* A value is a primitive or a reference to a heap object.  The library    *)
(* functions of src/defiant.ts are operators from a heap (and arguments)   *)
(* to a result, or to a new heap and a result.                             *)
(***************************************************************************)
EXTENDS Integers, Sequences, FiniteSets, TLC

VARIABLES heap, origin, call, mutations

vars == <<heap, origin, call, mutations>>

(* ------------------------------ bounds --------------------------------- *)

\* most objects on the heap in the lifecycle model
MaxHeap == 4
\* longest argument list / array, and most properties of an object literal
MaxLen == 2
\* most successful mutations by the caller
MaxMutations == 1

(* ------------------------------ values --------------------------------- *)

Number(tok) == [kind |-> "number", val |-> tok, ref |-> 0]
String(tok) == [kind |-> "string", val |-> tok, ref |-> 0]
Null == [kind |-> "null", val |-> "null", ref |-> 0]
Undefined == [kind |-> "undefined", val |-> "undefined", ref |-> 0]
Ref(a) == [kind |-> "object", val |-> "", ref |-> a]

NaN == Number("NaN")
PlusZero == Number("+0")
MinusZero == Number("-0")
One == Number("1")
Two == Number("2")

\* the built-in prototype objects; they are not on the modelled heap
ObjectPrototype == [kind |-> "object", val |-> "Object.prototype", ref |-> 0]
ArrayPrototype == [kind |-> "object", val |-> "Array.prototype", ref |-> 0]

IsRef(v) == v.kind = "object" /\ v.ref > 0

\* the references to the objects of heap h
Refs(h) == {Ref(a) : a \in 1..Len(h)}

\* property keys; the integer-like ones are array indices
IndexKeys == <<"0", "1", "2", "3", "4", "5">>
IndexKey(i) == IndexKeys[i + 1]
IsIndexKey(k) == \E i \in 1..Len(IndexKeys) : IndexKeys[i] = k
KeyIndex(k) == CHOOSE i \in 0..(Len(IndexKeys) - 1) : IndexKeys[i + 1] = k

(* ------------------------------ objects -------------------------------- *)

\* an array exotic object with the given elements
ArrayObject(elems, frozen) ==
  [class |-> "Array", frozen |-> frozen, proto |-> ArrayPrototype,
   elems |-> elems, props |-> <<>>]

\* an ordinary object; props are its own enumerable data properties in
\* creation order
OrdinaryObject(proto, props, frozen) ==
  [class |-> "Object", frozen |-> frozen, proto |-> proto,
   elems |-> <<>>, props |-> props]

Prop(k, v) == [key |-> k, value |-> v]

HasOwn(o, k) ==
  IF o.class = "Array"
    THEN IsIndexKey(k) /\ KeyIndex(k) < Len(o.elems)
    ELSE \E i \in 1..Len(o.props) : o.props[i].key = k

\* o[k] for an own property k of o
GetOwn(o, k) ==
  IF o.class = "Array"
    THEN o.elems[KeyIndex(k) + 1]
    ELSE o.props[CHOOSE i \in 1..Len(o.props) : o.props[i].key = k].value

IsNotIndexProp(p) == ~IsIndexKey(p.key)

RECURSIVE IndexKeysFrom(_, _)
IndexKeysFrom(o, i) ==
  IF i >= Len(IndexKeys) THEN <<>>
  ELSE (IF HasOwn(o, IndexKey(i)) THEN <<IndexKey(i)>> ELSE <<>>)
         \o IndexKeysFrom(o, i + 1)

\* Object.keys(o): the own enumerable string keys, integer-like keys first in
\* ascending order, then the others in creation order
ObjectKeys(o) ==
  LET named == SelectSeq(o.props, IsNotIndexProp)
  IN IndexKeysFrom(o, 0) \o [i \in 1..Len(named) |-> named[i].key]

Includes(s, e) == \E i \in 1..Len(s) : s[i] = e

\* CreateDataProperty(o, k, v) on an ordinary object: a new key is appended,
\* an existing key keeps its place and takes the new value
DefineProp(o, k, v) ==
  IF HasOwn(o, k)
    THEN [o EXCEPT !.props =
            [i \in 1..Len(o.props) |->
               IF o.props[i].key = k THEN Prop(k, v) ELSE o.props[i]]]
    ELSE [o EXCEPT !.props = Append(o.props, Prop(k, v))]

\* o[k] = v on an ordinary extensible object: an own property is written,
\* and "__proto__" without an own property of that name reaches the
\* accessor inherited from Object.prototype, which sets the prototype to an
\* object or null and ignores any other value
SetProp(o, k, v) ==
  IF k = "__proto__" /\ ~HasOwn(o, k) /\ o.proto = ObjectPrototype
    THEN (IF v.kind \in {"object", "null"} THEN [o EXCEPT !.proto = v] ELSE o)
    ELSE DefineProp(o, k, v)

RECURSIVE AssignFrom(_, _, _, _)
AssignFrom(target, source, keys, i) ==
  IF i > Len(keys) THEN target
  ELSE AssignFrom(SetProp(target, keys[i], GetOwn(source, keys[i])),
                  source, keys, i + 1)

\* Object.assign({}, source)
AssignToEmpty(source) ==
  AssignFrom(OrdinaryObject(ObjectPrototype, <<>>, FALSE), source,
             ObjectKeys(source), 1)

RECURSIVE FromEntriesFrom(_, _, _)
FromEntriesFrom(target, entries, i) ==
  IF i > Len(entries) THEN target
  ELSE FromEntriesFrom(DefineProp(target, entries[i][1], entries[i][2]),
                       entries, i + 1)

\* Object.fromEntries(entries)
ObjectFromEntries(entries) ==
  FromEntriesFrom(OrdinaryObject(ObjectPrototype, <<>>, FALSE), entries, 1)

\* Object.entries(o)
ObjectEntries(o) ==
  LET keys == ObjectKeys(o)
  IN [i \in 1..Len(keys) |-> <<keys[i], GetOwn(o, keys[i])>>]

(* ------------------------- language primitives ------------------------- *)

\* an identity that tells +0 from -0
SameValue(x, y) == x = y /\ x # NaN

\* x === y
StrictEquals(x, y) ==
  IF x.kind # y.kind THEN FALSE
  ELSE IF x.kind = "number"
    THEN IF x = NaN \/ y = NaN THEN FALSE
         ELSE x = y \/ {x, y} = {PlusZero, MinusZero}
  ELSE x = y

NumberIsNaN(x) == x = NaN

ArrayIsArray(h, v) == IsRef(v) /\ h[v.ref].class = "Array"

\* Object.isFrozen(v): a primitive counts as frozen
ObjectIsFrozen(h, v) == IF IsRef(v) THEN h[v.ref].frozen ELSE TRUE

TypeofObject(v) == v.kind \in {"object", "null"}

ObjectGetPrototypeOf(h, v) == h[v.ref].proto

(* ----------------------------- src/defiant.ts -------------------------- *)

\* the result of a call that allocates: the heap after it and the value
Result(h, v) == [heap |-> h, ret |-> v]
Alloc(h, o) == Result(Append(h, o), Ref(Len(h) + 1))

\* Tuple(...values): the rest parameter is a fresh array, which is frozen
\* a Tuple that returns the rest array without freezing it
TupleUnfrozen(h, values) == Alloc(h, ArrayObject(values, FALSE))

Tuple(h, values) == Alloc(h, ArrayObject(values, TRUE))

TupleOf(h, values) == Tuple(h, values)

\* Array.from(iterable) for an array: its elements in order
ArrayFrom(h, iterable) == h[iterable.ref].elems

TupleFrom(h, iterable) == Tuple(h, ArrayFrom(h, iterable))

\* an isTuple that accepts every array
isTupleAnyArray(h, value) == ArrayIsArray(h, value)

isTuple(h, value) == ArrayIsArray(h, value) /\ ObjectIsFrozen(h, value)

_isObject(value) == value.kind \notin {"null", "undefined"} /\ TypeofObject(value)

\* _isEqual(x, y).  stack holds the pairs of objects of the calls that are
\* active: a call that meets its own pair again repeats itself without end,
\* and the call as a whole ends in a RangeError ("overflow") instead of a
\* boolean.
RECURSIVE _isEqual(_, _, _, _)
RECURSIVE ElementsEqual(_, _, _, _, _)
RECURSIVE KeysEqual(_, _, _, _, _, _, _)
RECURSIVE KeysEqualInOrder(_, _, _, _, _, _, _)

\* an element loop that stops after index 0
ElementsEqualFirstOnly(h, x, y, i, stack) ==
  _isEqual(h, h[x.ref].elems[1], h[y.ref].elems[1], stack)

ElementsEqual(h, x, y, i, stack) ==
  IF i >= Len(h[x.ref].elems) THEN "true"
  ELSE LET r == _isEqual(h, h[x.ref].elems[i + 1], h[y.ref].elems[i + 1], stack)
       IN IF r = "true" THEN ElementsEqual(h, x, y, i + 1, stack) ELSE r

\* a key loop that compares the two key lists position by position
KeysEqualInOrder(h, x, y, xKeys, yKeys, n, stack) ==
  IF n > Len(xKeys) THEN "true"
  ELSE IF xKeys[n] # yKeys[n] THEN "false"
  ELSE LET r == _isEqual(h, GetOwn(h[x.ref], xKeys[n]),
                         GetOwn(h[y.ref], xKeys[n]), stack)
       IN IF r = "true" THEN KeysEqualInOrder(h, x, y, xKeys, yKeys, n + 1, stack)
          ELSE r

KeysEqual(h, x, y, xKeys, yKeys, n, stack) ==
  IF n > Len(xKeys) THEN "true"
  ELSE IF ~Includes(yKeys, xKeys[n]) THEN "false"
  ELSE LET r == _isEqual(h, GetOwn(h[x.ref], xKeys[n]),
                         GetOwn(h[y.ref], xKeys[n]), stack)
       IN IF r = "true" THEN KeysEqual(h, x, y, xKeys, yKeys, n + 1, stack)
          ELSE r

_isEqual(h, x, y, stack) ==
  IF StrictEquals(x, y) \/ (NumberIsNaN(x) /\ NumberIsNaN(y)) THEN "true"
  ELSE IF <<x, y>> \in stack THEN "overflow"
  ELSE IF ArrayIsArray(h, x) /\ ArrayIsArray(h, y) THEN
    IF Len(h[x.ref].elems) # Len(h[y.ref].elems) THEN "false"
    ELSE IF Len(h[x.ref].elems) = 0 THEN "true"
    ELSE ElementsEqual(h, x, y, 0, stack \cup {<<x, y>>})
  ELSE IF _isObject(x) /\ _isObject(y) THEN
    IF ObjectGetPrototypeOf(h, x) # ObjectGetPrototypeOf(h, y) THEN "false"
    ELSE LET xKeys == ObjectKeys(h[x.ref])
             yKeys == ObjectKeys(h[y.ref])
         IN IF Len(xKeys) # Len(yKeys) THEN "false"
            ELSE IF Len(xKeys) = 0 THEN "true"
            ELSE KeysEqual(h, x, y, xKeys, yKeys, 1, stack \cup {<<x, y>>})
  ELSE "false"

\* an isEqual with a visited-pair guard that takes a pair met again as equal
isEqualCycleGuarded(h, x, y) ==
  IF _isEqual(h, x, y, {}) = "overflow" THEN "true" ELSE _isEqual(h, x, y, {})

\* Tuple.isEqual(x, y), and Record.isEqual, which is the same function
isEqual(h, x, y) == _isEqual(h, x, y, {})

\* Tuple.toArray(value): Array.from(value), a fresh unfrozen array
toArray(h, value) == Alloc(h, ArrayObject(ArrayFrom(h, value), FALSE))

\* a Record that also freezes the object it was given
RecordFreezingArgument(h, O) ==
  Alloc([h EXCEPT ![O.ref].frozen = TRUE],
        [AssignToEmpty(h[O.ref]) EXCEPT !.frozen = TRUE])

\* Record(O): Object.freeze(Object.assign({}, O))
Record(h, O) == Alloc(h, [AssignToEmpty(h[O.ref]) EXCEPT !.frozen = TRUE])

\* Record.fromEntries(entries): Object.freeze(Object.fromEntries(entries))
RecordFromEntries(h, entries) ==
  Alloc(h, [ObjectFromEntries(entries) EXCEPT !.frozen = TRUE])

RecordFromObject(h, O) == Record(h, O)

\* an isRecord without the typeof test
isRecordAnyFrozen(h, value) == ObjectIsFrozen(h, value)

isRecord(h, value) ==
  value.kind \notin {"null", "undefined"} /\ TypeofObject(value)
    /\ ObjectIsFrozen(h, value)

\* Record.toObject(value): Object.assign({}, value)
toObject(h, value) == Alloc(h, AssignToEmpty(h[value.ref]))

(* ------------------------- the lifecycle model ------------------------- *)

\* primitives and keys the caller's code works with
CallerPrims == {One}
CallerKeys == {"a", "__proto__"}
\* the primitive a mutation writes
Written == Two

\* every sequence over S of length at most n
SeqsUpTo(S, n) == UNION {[1..k -> S] : k \in 0..n}

\* property lists with distinct keys, as an object literal writes them
IsLiteral(props) ==
  \A i, j \in 1..Len(props) : props[i].key = props[j].key => i = j

NoObject == OrdinaryObject(Null, <<>>, FALSE)

\* how the object at an address came to be: the function that made it
\* ("literal" for the caller's own literals), its argument and, for a tuple
\* or record, the argument's contents at that moment and the object as made
Origin(by, arg, input, made) ==
  [by |-> by, arg |-> arg, input |-> input, made |-> made]

\* the last operation: its arguments, the value returned, and the outcome of
\* a predicate or a mutation attempt
Call(op, args, ret, res) == [op |-> op, args |-> args, ret |-> ret, res |-> res]

Bool(b) == IF b THEN "true" ELSE "false"

\* the caller's own objects: a leaf, and an array or object literal that may
\* hold it
Leaves == {ArrayObject(<<One>>, FALSE)}
SourceValues == CallerPrims \cup {Ref(1)}
Sources ==
  {ArrayObject(values, FALSE) : values \in SeqsUpTo(SourceValues, MaxLen)}
    \cup {OrdinaryObject(ObjectPrototype, props, FALSE) :
            props \in {ps \in SeqsUpTo([key : CallerKeys, value : SourceValues],
                                      MaxLen) : IsLiteral(ps)}}

Init ==
  /\ \E leaf \in Leaves, source \in Sources : heap = <<leaf, source>>
  /\ origin = <<Origin("literal", Undefined, NoObject, NoObject),
                Origin("literal", Undefined, NoObject, NoObject)>>
  /\ call = Call("none", <<>>, Undefined, "")
  /\ mutations = 0

\* an allocating call: the new object goes on the heap with its origin
Allocate(r, op, by, arg, input) ==
  /\ Len(heap) < MaxHeap
  /\ heap' = r.heap
  /\ origin' = Append(origin,
                      Origin(by, arg, input,
                             IF by = "copy" THEN NoObject ELSE r.heap[r.ret.ref]))
  /\ call' = Call(op, <<arg>>, r.ret, "")
  /\ UNCHANGED mutations

\* a mutation attempt in strict code: a frozen object throws a TypeError and
\* stays as it is
Mutate(op, a, o) ==
  /\ heap[a].frozen \/ mutations < MaxMutations
  /\ heap' = IF heap[a].frozen THEN heap ELSE [heap EXCEPT ![a] = o]
  /\ mutations' = IF heap[a].frozen THEN mutations ELSE mutations + 1
  /\ call' = Call(op, <<Ref(a)>>, Undefined,
                  IF heap[a].frozen THEN "TypeError" ELSE "")
  /\ UNCHANGED origin

\* a[i] = v, with i = a.length appending
EnvSetElement ==
  \E a \in 1..Len(heap) :
    /\ heap[a].class = "Array"
    /\ \E i \in 0..Len(heap[a].elems) :
         /\ i < MaxLen
         /\ Mutate("setElement", a,
                   [heap[a] EXCEPT !.elems =
                      IF i = Len(heap[a].elems) THEN Append(heap[a].elems, Written)
                      ELSE [heap[a].elems EXCEPT ![i + 1] = Written]])

\* a.pop()
EnvPop ==
  \E a \in 1..Len(heap) :
    /\ heap[a].class = "Array"
    /\ Len(heap[a].elems) > 0
    /\ Mutate("pop", a,
              [heap[a] EXCEPT !.elems =
                 SubSeq(heap[a].elems, 1, Len(heap[a].elems) - 1)])

\* o[k] = v
EnvSetProperty ==
  \E a \in 1..Len(heap), k \in CallerKeys :
    /\ heap[a].class = "Object"
    /\ Mutate("setProperty", a, SetProp(heap[a], k, Written))

\* delete o[k]
EnvDeleteProperty ==
  \E a \in 1..Len(heap), k \in CallerKeys :
    /\ heap[a].class = "Object"
    /\ HasOwn(heap[a], k)
    /\ Mutate("deleteProperty", a,
              [heap[a] EXCEPT !.props =
                 SelectSeq(heap[a].props, LAMBDA p : p.key # k)])

\* Object.freeze(o) by the caller
EnvFreeze ==
  \E a \in 1..Len(heap) :
    /\ ~heap[a].frozen
    /\ mutations < MaxMutations
    /\ heap' = [heap EXCEPT ![a].frozen = TRUE]
    /\ mutations' = mutations + 1
    /\ call' = Call("freeze", <<Ref(a)>>, Ref(a), "")
    /\ UNCHANGED origin

\* Tuple(...V) for a caller's array V
CallTuple ==
  \E V \in Refs(heap) :
    /\ ArrayIsArray(heap, V)
    /\ Allocate(Tuple(heap, heap[V.ref].elems), "Tuple", "Tuple", V,
                heap[V.ref])

\* Tuple.of(...V) for a caller's array V
CallTupleOf ==
  \E V \in Refs(heap) :
    /\ ArrayIsArray(heap, V)
    /\ Allocate(TupleOf(heap, heap[V.ref].elems), "Tuple.of", "Tuple", V,
                heap[V.ref])

CallTupleFrom ==
  \E iterable \in Refs(heap) :
    /\ ArrayIsArray(heap, iterable)
    /\ Allocate(TupleFrom(heap, iterable), "Tuple.from", "Tuple.from", iterable,
                heap[iterable.ref])

CallToArray ==
  \E value \in Refs(heap) :
    /\ ArrayIsArray(heap, value)
    /\ Allocate(toArray(heap, value), "Tuple.toArray", "copy", value,
                NoObject)

CallRecord ==
  \E O \in Refs(heap) :
    Allocate(Record(heap, O), "Record", "Record", O, heap[O.ref])

\* Record.fromEntries(Object.entries(O)) for a caller's object O
CallRecordFromEntries ==
  \E O \in Refs(heap) :
    Allocate(RecordFromEntries(heap, ObjectEntries(heap[O.ref])),
             "Record.fromEntries", "Record.fromEntries", O, heap[O.ref])

CallRecordFromObject ==
  \E O \in Refs(heap) :
    Allocate(RecordFromObject(heap, O), "Record.fromObject", "Record", O,
             heap[O.ref])

CallToObject ==
  \E value \in Refs(heap) :
    Allocate(toObject(heap, value), "Record.toObject", "copy", value,
             NoObject)

\* isTuple, isRecord and isEqual read the heap and write nothing: whatever
\* the caller asks about its objects, every variable stays as it is
CallPredicate ==
  /\ \A x, y \in Refs(heap) :
       /\ isTuple(heap, x) \in BOOLEAN
       /\ isRecord(heap, x) \in BOOLEAN
       /\ isEqual(heap, x, y) \in {"true", "false", "overflow"}
  /\ UNCHANGED vars

Next ==
  \/ EnvSetElement
  \/ EnvPop
  \/ EnvSetProperty
  \/ EnvDeleteProperty
  \/ EnvFreeze
  \/ CallTuple
  \/ CallTupleOf
  \/ CallTupleFrom
  \/ CallToArray
  \/ CallRecord
  \/ CallRecordFromEntries
  \/ CallRecordFromObject
  \/ CallToObject
  \/ CallPredicate

Spec == Init /\ [][Next]_vars

(* ------------------------- the equality model -------------------------- *)

\* Inputs of the predicates: a heap <<l1, l2, t1, t2>> of two leaves and two
\* containers that may hold them, drawn from the families below, and one call
\* on it.

Nums == {NaN, PlusZero, MinusZero, One}
TopPrims == Nums \cup {Null}

Arrays(values, n, frozen) ==
  {ArrayObject(elems, f) : elems \in SeqsUpTo(values, n), f \in frozen}
Objects(protos, keys, values, n, frozen) ==
  {OrdinaryObject(p, props, f) : p \in protos, f \in frozen,
     props \in {ps \in SeqsUpTo([key : keys, value : values], n) : IsLiteral(ps)}}

\* sequences over numbers nested in sequences, frozen and not
ArrayHeaps ==
  {<<l1, l2, t1, t2>> :
     l1 \in Arrays({NaN, PlusZero}, 1, {FALSE}),
     l2 \in Arrays({NaN, MinusZero, One}, 1, {FALSE}),
     t1 \in Arrays({One, Ref(1)}, MaxLen, BOOLEAN),
     t2 \in Arrays({One, Ref(1), Ref(2)}, MaxLen, {FALSE})}

\* objects with and without a prototype, their keys written in either order
ObjectHeaps ==
  {<<l1, l2, t1, t2>> :
     l1 \in {ArrayObject(<<NaN>>, FALSE)},
     l2 \in {ArrayObject(<<NaN>>, FALSE), ArrayObject(<<One>>, FALSE),
             OrdinaryObject(ObjectPrototype, <<>>, FALSE)},
     t1 \in Objects({ObjectPrototype}, {"a", "b"}, {One, Ref(1)}, MaxLen, {FALSE}),
     t2 \in Objects({ObjectPrototype, Null}, {"a", "b"}, {One, Ref(1), Ref(2)},
                    MaxLen, {FALSE})}

\* a sequence against objects with the keys of a sequence, among them objects
\* made by Object.create(Array.prototype)
KindHeaps ==
  {<<l1, l2, t1, t2>> :
     l1 \in {ArrayObject(<<One>>, FALSE)},
     l2 \in {OrdinaryObject(ObjectPrototype, <<Prop("a", One)>>, TRUE)},
     t1 \in Arrays({One}, MaxLen, BOOLEAN),
     t2 \in Objects({ObjectPrototype, ArrayPrototype, Null}, {"0", "1", "a"},
                    {One}, MaxLen, {FALSE})}

\* structures that reach themselves
CyclicHeaps ==
  {<<l1, l2, t1, t2>> :
     l1 \in Arrays({One, Ref(1), Ref(2)}, MaxLen, {FALSE}),
     l2 \in Arrays({One, Ref(1), Ref(2)}, MaxLen, {FALSE}),
     t1 \in {ArrayObject(<<Ref(1)>>, FALSE),
             OrdinaryObject(ObjectPrototype, <<Prop("a", Ref(3))>>, FALSE),
             OrdinaryObject(ObjectPrototype, <<Prop("a", Ref(4))>>, FALSE)},
     t2 \in {OrdinaryObject(ObjectPrototype, <<Prop("a", Ref(4))>>, FALSE)}}

EqHeaps == ArrayHeaps \cup ObjectHeaps \cup KindHeaps \cup CyclicHeaps

EqArgs(h) == Refs(h) \cup TopPrims

InitEq ==
  /\ heap \in EqHeaps
  /\ origin = [a \in 1..Len(heap) |->
                 Origin("literal", Undefined, NoObject, NoObject)]
  /\ call = Call("none", <<>>, Undefined, "")
  /\ mutations = 0

\* a call of a predicate: its result is recorded, nothing else changes
Answer(op, args, res) ==
  /\ call.op = "none"
  /\ call' = Call(op, args, Undefined, res)
  /\ UNCHANGED <<heap, origin, mutations>>

IsTuple ==
  \E value \in EqArgs(heap) :
    Answer("Tuple.isTuple", <<value>>, Bool(isTuple(heap, value)))

IsRecord ==
  \E value \in EqArgs(heap) :
    Answer("Record.isRecord", <<value>>, Bool(isRecord(heap, value)))

IsEqual ==
  \E x, y \in EqArgs(heap) :
    Answer("Tuple.isEqual", <<x, y>>, isEqual(heap, x, y))

NextEq ==
  \/ IsTuple
  \/ IsRecord
  \/ IsEqual

SpecEq == InitEq /\ [][NextEq]_vars

(* ------------------------ the composition model ------------------------ *)

\* Tuple.isEqual(Tuple.of(...V, Record.fromEntries(pairs)),
\*               Tuple.of(...V, Record.fromObject(O)))
\* for an object O of the caller, the entries of O in any order, and a list V

ComposeValues == {One, NaN, Ref(1)}
ComposeKeys == {"a", "b", "__proto__"}

InitCompose ==
  /\ \E O \in Objects({ObjectPrototype}, ComposeKeys, ComposeValues, MaxLen,
                       {FALSE}) :
       heap = <<ArrayObject(<<One>>, FALSE), O>>
  /\ origin = <<Origin("literal", Undefined, NoObject, NoObject),
                Origin("literal", Undefined, NoObject, NoObject)>>
  /\ call = Call("none", <<>>, Undefined, "")
  /\ mutations = 0

\* the entries of o in every order
Orderings(o) ==
  LET entries == ObjectEntries(o)
      n == Len(entries)
  IN {[i \in 1..n |-> entries[f[i]]] :
        f \in {g \in [1..n -> 1..n] : \A i, j \in 1..n : g[i] = g[j] => i = j}}

Compose ==
  \E V \in SeqsUpTo(ComposeValues, MaxLen), pairs \in Orderings(heap[2]) :
    LET O == Ref(2)
        r1 == RecordFromEntries(heap, pairs)
        t1 == TupleOf(r1.heap, Append(V, r1.ret))
        r2 == RecordFromObject(t1.heap, O)
        t2 == TupleOf(r2.heap, Append(V, r2.ret))
    IN /\ call.op = "none"
       /\ heap' = t2.heap
       /\ origin' = origin \o
            <<Origin("Record.fromEntries", O, heap[2], r1.heap[r1.ret.ref]),
              Origin("Tuple", Undefined, NoObject, t1.heap[t1.ret.ref]),
              Origin("Record", O, heap[2], r2.heap[r2.ret.ref]),
              Origin("Tuple", Undefined, NoObject, t2.heap[t2.ret.ref])>>
       /\ call' = Call("Tuple.isEqual", <<t1.ret, t2.ret>>, Undefined,
                       isEqual(t2.heap, t1.ret, t2.ret))
       /\ UNCHANGED mutations

NextCompose == Compose

SpecCompose == InitCompose /\ [][NextCompose]_vars

(* ------------------------------- claims -------------------------------- *)

\* the arguments of the recorded call
X == call.args[1]
Y == call.args[2]

Elems(v) == heap[v.ref].elems

\* C1: two sequences that are not the same reference are equal exactly when
\* they have the same length and isEqual holds at every index; sequences of
\* different length are unequal and two empty sequences are equal
C1_SequencesEqualElementwise ==
  (call.op = "Tuple.isEqual" /\ ArrayIsArray(heap, X) /\ ArrayIsArray(heap, Y)
     /\ X # Y) =>
    /\ (call.res = "true") <=>
         (/\ Len(Elems(X)) = Len(Elems(Y))
          /\ \A i \in 1..Len(Elems(X)) :
               isEqual(heap, Elems(X)[i], Elems(Y)[i]) = "true")
    /\ Len(Elems(X)) # Len(Elems(Y)) => call.res = "false"
    /\ (Len(Elems(X)) = 0 /\ Len(Elems(Y)) = 0) => call.res = "true"

\* two distinct sequences of two elements found equal through a nested pair
\* of distinct sequences
C1_Witness ==
  /\ call.op = "Tuple.isEqual" /\ ArrayIsArray(heap, X) /\ ArrayIsArray(heap, Y)
  /\ X # Y /\ call.res = "true" /\ Len(Elems(X)) = 2
  /\ \E i \in 1..2 : IsRef(Elems(X)[i]) /\ Elems(X)[i] # Elems(Y)[i]

IsPlainObject(v) == IsRef(v) /\ ~ArrayIsArray(heap, v)
KeySet(v) == {heap[v.ref].props[i].key : i \in 1..Len(heap[v.ref].props)}
Reverse(s) == [i \in 1..Len(s) |-> s[Len(s) + 1 - i]]
\* the heap with the properties of v created in the opposite order
Reordered(v) == [heap EXCEPT ![v.ref].props = Reverse(heap[v.ref].props)]

\* C2: two distinct non-sequence objects are equal exactly when they have the
\* same prototype, the same set of keys and isEqual holds for every key; the
\* order in which the keys of either were created does not change the result
C2_ObjectsEqualByPrototypeAndKeys ==
  (call.op = "Tuple.isEqual" /\ IsPlainObject(X) /\ IsPlainObject(Y) /\ X # Y) =>
    /\ (call.res = "true") <=>
         (/\ heap[X.ref].proto = heap[Y.ref].proto
          /\ KeySet(X) = KeySet(Y)
          /\ \A k \in KeySet(X) :
               isEqual(heap, GetOwn(heap[X.ref], k), GetOwn(heap[Y.ref], k))
                 = "true")
    /\ isEqual(Reordered(X), X, Y) = call.res
    /\ isEqual(Reordered(Y), X, Y) = call.res

\* two objects with two keys each, created in opposite orders, found equal
C2_Witness ==
  /\ call.op = "Tuple.isEqual" /\ IsPlainObject(X) /\ IsPlainObject(Y) /\ X # Y
  /\ call.res = "true"
  /\ Len(heap[X.ref].props) = 2
  /\ heap[X.ref].props[1].key = heap[Y.ref].props[2].key
  /\ \E i \in 1..2 : IsRef(heap[X.ref].props[i].value)

IsPrim(v) == v.kind # "object"
SameValueZero(x, y) == x = y \/ {x, y} = {PlusZero, MinusZero}
IsWrapped(v) == ArrayIsArray(heap, v) /\ Len(Elems(v)) = 1

\* C3: primitives compare by SameValueZero at every depth: directly, as the
\* elements of two sequences, and as the elements of sequences nested in two
\* sequences
C3_SameValueZeroAtEveryDepth ==
  call.op = "Tuple.isEqual" =>
    /\ (IsPrim(X) /\ IsPrim(Y)) => (call.res = Bool(SameValueZero(X, Y)))
    /\ (IsWrapped(X) /\ IsWrapped(Y) /\ IsPrim(Elems(X)[1])
          /\ IsPrim(Elems(Y)[1])) =>
         (call.res = Bool(SameValueZero(Elems(X)[1], Elems(Y)[1])))
    /\ (/\ IsWrapped(X) /\ IsWrapped(Y)
        /\ IsWrapped(Elems(X)[1]) /\ IsWrapped(Elems(Y)[1])
        /\ IsPrim(Elems(Elems(X)[1])[1]) /\ IsPrim(Elems(Elems(Y)[1])[1])) =>
         (call.res = Bool(SameValueZero(Elems(Elems(X)[1])[1],
                                        Elems(Elems(Y)[1])[1])))

\* [[NaN]] found equal to another [[NaN]]
C3_Witness ==
  /\ call.op = "Tuple.isEqual" /\ call.res = "true" /\ X # Y
  /\ IsWrapped(X) /\ IsWrapped(Y)
  /\ IsWrapped(Elems(X)[1]) /\ IsWrapped(Elems(Y)[1])
  /\ Elems(X)[1] # Elems(Y)[1]
  /\ Elems(Elems(X)[1])[1] = NaN /\ Elems(Elems(Y)[1])[1] = NaN

Builders == {"Tuple", "Tuple.from", "Record", "Record.fromEntries"}

\* C4: a tuple or record, once made, keeps its frozen marker and its
\* top-level contents through every later operation
C4_BuiltValuesNeverChange ==
  \A a \in 1..Len(heap) :
    origin[a].by \in Builders =>
      /\ heap[a].frozen
      /\ heap[a].elems = origin[a].made.elems
      /\ heap[a].props = origin[a].made.props
      /\ heap[a].proto = origin[a].made.proto

\* a mutation attempt on a tuple or record whose source was changed after it
\* was made
C4_Witness ==
  /\ call.res = "TypeError"
  /\ origin[X.ref].by \in Builders
  /\ heap[origin[X.ref].arg.ref] # origin[X.ref].input
  /\ Len(heap[X.ref].elems) + Len(heap[X.ref].props) > 0

\* C5: Record(O) and Record.fromObject(O) return a new object and leave O as
\* it was, unfrozen if it was; whatever is done to O afterwards, the record
\* keeps the key/value pairs it was made with
C5_RecordCopiesOnCreate ==
  /\ call.op \in {"Record", "Record.fromObject"} =>
       /\ call.ret # X
       /\ call.ret.ref = Len(heap)
       /\ heap[X.ref] = origin[call.ret.ref].input
  /\ \A a \in 1..Len(heap) :
       origin[a].by = "Record" =>
         /\ ObjectEntries(heap[a]) = ObjectEntries(origin[a].made)
         /\ origin[a].arg.ref # a

\* a record with a key, made from an object that is still unfrozen and whose
\* properties have changed since
C5_Witness ==
  \E a \in 1..Len(heap) :
    /\ origin[a].by = "Record"
    /\ Len(heap[a].props) > 0
    /\ ~heap[origin[a].arg.ref].frozen
    /\ heap[origin[a].arg.ref].props # origin[a].input.props

\* C6: what a constructor returns satisfies the matching predicate, and the
\* plain (unfrozen) array or object it was given does not
C6_ConstructorsSatisfyPredicates ==
  /\ call.op \in {"Tuple", "Tuple.of", "Tuple.from"} =>
       /\ isTuple(heap, call.ret)
       /\ ~heap[X.ref].frozen => ~isTuple(heap, X)
  /\ call.op \in {"Record", "Record.fromObject", "Record.fromEntries"} =>
       /\ isRecord(heap, call.ret)
       /\ ~heap[X.ref].frozen => ~isRecord(heap, X)

\* Tuple.from on a plain array of two elements
C6_Witness ==
  /\ call.op = "Tuple.from"
  /\ ~heap[X.ref].frozen
  /\ Len(heap[X.ref].elems) = 2
  /\ Len(heap[call.ret.ref].elems) = 2

EntrySet(o) == {ObjectEntries(o)[i] : i \in 1..Len(ObjectEntries(o))}

\* C7: Tuple.toArray(Tuple(...V)) is a new unfrozen array with the elements
\* of V at every index, and Record.toObject(Record(O)) is a new unfrozen
\* object with the keys of O bound to the values of O
C7_ShallowRoundTrip ==
  /\ (call.op = "Tuple.toArray" /\ origin[X.ref].by = "Tuple") =>
       /\ call.ret.ref = Len(heap) /\ call.ret # X
       /\ ArrayIsArray(heap, call.ret)
       /\ ~heap[call.ret.ref].frozen
       /\ heap[call.ret.ref].elems = origin[X.ref].input.elems
  /\ (call.op = "Record.toObject" /\ origin[X.ref].by = "Record") =>
       /\ call.ret.ref = Len(heap) /\ call.ret # X
       /\ ~heap[call.ret.ref].frozen
       /\ EntrySet(heap[call.ret.ref]) = EntrySet(origin[X.ref].input)

\* C8: a tuple ending in Record.fromEntries(pairs) equals the tuple of the
\* same values ending in Record.fromObject(O), for the pairs of O in any order
C8_RecordEqualityComposes ==
  call.op = "Tuple.isEqual" => call.res = "true"

\* C9: isEqual is false for a sequence against a non-sequence object, for a
\* primitive or null against an object, and for two primitives that are not
\* SameValueZero-equal
C9_MismatchedKindsUnequal ==
  call.op = "Tuple.isEqual" =>
    /\ (ArrayIsArray(heap, X) /\ IsPlainObject(Y)) => call.res = "false"
    /\ (IsPlainObject(X) /\ ArrayIsArray(heap, Y)) => call.res = "false"
    /\ (IsPrim(X) /\ IsRef(Y)) => call.res = "false"
    /\ (IsRef(X) /\ IsPrim(Y)) => call.res = "false"
    /\ (IsPrim(X) /\ IsPrim(Y) /\ ~SameValueZero(X, Y)) => call.res = "false"

\* C10: isRecord is true of every frozen object, sequences included, and
\* false of null and of every primitive; whatever isTuple accepts, isRecord
\* accepts
C10_IsRecordIsAFrozenObjectTest ==
  /\ call.op = "Record.isRecord" =>
       /\ (IsRef(X) /\ heap[X.ref].frozen) => call.res = "true"
       /\ IsPrim(X) => call.res = "false"
  /\ (call.op = "Tuple.isTuple" /\ call.res = "true") => isRecord(heap, X)
  /\ \A v \in EqArgs(heap) : isTuple(heap, v) => isRecord(heap, v)

\* isRecord asked about a frozen sequence
C10_Witness ==
  /\ call.op = "Record.isRecord"
  /\ call.res = "true"
  /\ ArrayIsArray(heap, X)
  /\ isTuple(heap, X)

\* the objects an object refers to at its top level
Children(a) ==
  {heap[a].elems[i].ref : i \in {j \in 1..Len(heap[a].elems) :
                                   IsRef(heap[a].elems[j])}}
    \cup {heap[a].props[i].value.ref :
            i \in {j \in 1..Len(heap[a].props) : IsRef(heap[a].props[j].value)}}

RECURSIVE ReachFrom(_, _)
\* the objects reached from those of S in at most n steps
ReachFrom(S, n) ==
  IF n = 0 THEN S ELSE ReachFrom(S \cup UNION {Children(a) : a \in S}, n - 1)

\* v contains a reference cycle: it reaches an object that reaches itself
Cyclic(v) ==
  /\ IsRef(v)
  /\ \E a \in ReachFrom({v.ref}, Len(heap)) :
       a \in ReachFrom(Children(a), Len(heap))

\* x and y are distinct containers of the same shape whose first slot leads
\* straight back to the two of them
LeadsBackToPair(x, y) ==
  /\ IsRef(x) /\ IsRef(y) /\ x # y
  /\ \/ /\ ArrayIsArray(heap, x) /\ ArrayIsArray(heap, y)
        /\ Len(Elems(x)) = Len(Elems(y)) /\ Len(Elems(x)) > 0
        /\ {Elems(x)[1], Elems(y)[1]} = {x, y}
     \/ /\ IsPlainObject(x) /\ IsPlainObject(y)
        /\ heap[x.ref].proto = heap[y.ref].proto
        /\ Len(heap[x.ref].props) = 1 /\ Len(heap[y.ref].props) = 1
        /\ KeySet(x) = KeySet(y)
        /\ {heap[x.ref].props[1].value, heap[y.ref].props[1].value} = {x, y}

\* C11 as stated: whenever x or y contains a reference cycle, isEqual(x, y)
\* does not return a boolean
C11_CyclicInputNeverReturns ==
  (call.op = "Tuple.isEqual" /\ (Cyclic(X) \/ Cyclic(Y))) =>
    call.res = "overflow"

\* C11, amended: isEqual has no cycle detection.  It fails to return a
\* boolean only for two distinct arguments that both contain a reference
\* cycle, and it does fail when the comparison of x and y leads straight back
\* to the pair; a cyclic x compared with itself is equal, and compared with a
\* primitive or null it is unequal
C11_RevisitedPairNeverReturns ==
  call.op = "Tuple.isEqual" =>
    /\ call.res = "overflow" => (X # Y /\ Cyclic(X) /\ Cyclic(Y))
    /\ LeadsBackToPair(X, Y) => call.res = "overflow"
    /\ (Cyclic(X) /\ X = Y) => call.res = "true"
    /\ ((Cyclic(X) /\ IsPrim(Y)) \/ (IsPrim(X) /\ Cyclic(Y))) =>
         call.res = "false"

\* two distinct objects, each holding itself under its only key, compared
C11_Witness ==
  /\ call.op = "Tuple.isEqual" /\ call.res = "overflow"
  /\ IsPlainObject(X) /\ IsPlainObject(Y)
  /\ LeadsBackToPair(X, Y)
  /\ heap[X.ref].props[1].value = X

====
